---- MODULE Spec2Model ----
(***************************************************************************)
(* Advisory file locks (advisory-lock-rs, src/lib.rs).                     *)
(*                                                                         *)
(* A set of AdvisoryFileLock handles on ONE path.  Every handle owns its   *)
(* own open file description; the operating system keeps one advisory lock *)
(* entry per description (osLock).  The public operations new, lock,       *)
(* try_lock, unlock and drop are the actions.  The platform driver         *)
(* (lock_impl, try_lock_impl, unlock_impl: modules `unix` / `windows`,     *)
(* declared at lib.rs:10-14) is modelled from its specified interface.     *)
(***************************************************************************)
EXTENDS Naturals, FiniteSets

\* Number of handle slots that may be constructed on the path.
NumHandles == 3

H == 1..NumHandles

\* Number of threads that share the handles.
NumThreads == 2

T == 1..NumThreads

\* FileLockMode (lib.rs:29-34)
FileLockMode == {"Exclusive", "Shared"}

\* FileLockError (lib.rs:18-25), plus the success value of Result
FileLockError == {"AlreadyLocked", "IOError"}

VARIABLES
    fileExists,     \* whether the path names an existing file
    st,             \* per handle: "none" (not constructed), "open", "dropped"
    file_lock_mode, \* per handle: field file_lock_mode ("None" before new)
    locked,         \* per handle: field locked
    osLock,         \* per handle: the OS lock held through its descriptor
    pc,             \* per handle: "idle", or "waiting" inside a blocking lock()
    contended,      \* handles whose latest try_lock returned AlreadyLocked
                    \* and that have acquired no lock since
    unlockFailed,   \* handles whose latest unlock(), called with the flag
                    \* set, returned IOError
    last,           \* the latest call: see Call
    inflight        \* per thread: the call on the shared handle the thread
                    \* is inside, between its driver call and its update of
                    \* the flag

vars == <<fileExists, st, file_lock_mode, locked, osLock, pc, contended,
          unlockFailed, last, inflight>>

\* The variables that only calls issued thread by thread change.
threadVars == <<inflight>>

\* The record of a call: the operation, the handle, the value returned
\* ("Pending" while a blocking call is suspended) and what the call did:
\*   created  new: the open created the file
\*   retry    try_lock: the handle was in contended; drop: in unlockFailed
\*   rel      unlock, drop: the driver release calls it made
\*   log      drop: the log::error! lines it emitted
\*   waited   lock: the call returned after having been suspended
\*   flag     lock, unlock, drop: the handle's flag when the call began
\*   t        the thread that made the call, where threads are told apart
\* For a drop, res is what its inner unlock() returned (Ok when none was
\* made); drop itself returns nothing.
Call(op, h, res, note) ==
    [op |-> op, h |-> h, res |-> res, created |-> note.created,
     retry |-> note.retry, rel |-> note.rel, log |-> note.log,
     waited |-> note.waited, flag |-> note.flag, t |-> note.t]

\* A thread that is inside no call.
NoCall == [op |-> "none", r |-> "none"]

NoNote ==
    [created |-> FALSE, retry |-> FALSE, rel |-> 0, log |-> 0,
     waited |-> FALSE, flag |-> FALSE, t |-> 0]

-----------------------------------------------------------------------------
(* The operating system's lock table and the platform driver.              *)

\* Two lock modes can be held at once only when both are Shared.
Compatible(m1, m2) == m1 = "Shared" /\ m2 = "Shared"

\* Another descriptor holds a lock incompatible with the one h requests.
Conflict(h) ==
    \E g \in H \ {h} :
        osLock[g] # "None" /\ ~Compatible(file_lock_mode[h], osLock[g])

\* Non-blocking acquire: AlreadyLocked when unavailable, IOError on any
\* other failure (io), success otherwise.
try_lock_impl(h, io) ==
    IF Conflict(h) THEN "AlreadyLocked"
    ELSE IF io THEN "IOError"
    ELSE "Ok"

\* Blocking acquire: IOError on a failure (io), suspends ("Block") while the
\* lock is unavailable, success otherwise.  Never AlreadyLocked.
lock_impl(h, io) ==
    IF io THEN "IOError"
    ELSE IF Conflict(h) THEN "Block"
    ELSE "Ok"

\* Release: success, or IOError when the native release call fails (io).
unlock_impl(h, io) == IF io THEN "IOError" ELSE "Ok"

\* The lock table entry of h after an acquire call that returned r.
OsAcquire(h, r) == IF r = "Ok" THEN file_lock_mode[h] ELSE osLock[h]

\* The lock table entry of h after a release call that returned r.
OsRelease(h, r) == IF r = "Ok" THEN "None" ELSE osLock[h]

-----------------------------------------------------------------------------
(* AdvisoryFileLock                                                        *)

\* Mutant of OpenCreates: `.create(true)` whatever the mode.
OpenCreates_always(m) == TRUE

\* OpenOptions .create(is_exclusive) / .write(is_exclusive)
OpenCreates(m) == m = "Exclusive"

\* OpenOptions::open: fails when the file is absent and not created, or on
\* any other I/O failure (io).
OpenResult(m, io) ==
    IF io THEN "IOError"
    ELSE IF ~fileExists /\ ~OpenCreates(m) THEN "IOError"
    ELSE "Ok"

\* Mutant of is_shared: true only once the Shared lock has been acquired.
is_shared_acquired(h) == file_lock_mode[h] = "Shared" /\ locked[h]

is_shared(h) == file_lock_mode[h] = "Shared"

is_exclusive(h) == file_lock_mode[h] = "Exclusive"

Init ==
    /\ fileExists \in BOOLEAN
    /\ st = [h \in H |-> "none"]
    /\ file_lock_mode = [h \in H |-> "None"]
    /\ locked = [h \in H |-> FALSE]
    /\ osLock = [h \in H |-> "None"]
    /\ pc = [h \in H |-> "idle"]
    /\ contended = {}
    /\ unlockFailed = {}
    /\ last = Call("init", 0, "Ok", NoNote)
    /\ inflight = [t \in T |-> NoCall]

\* Mutant of new_locked: the handle is constructed with `locked: true`.
new_locked_true == TRUE

\* `locked: false` in the constructed AdvisoryFileLock.
new_locked == FALSE

\* AdvisoryFileLock::new(path, m).  The handles are numbered in the order of
\* their construction: the new one takes the first free slot h.
new(h, m, io) ==
    /\ st[h] = "none"
    /\ \A g \in H : g < h => st[g] # "none"
    /\ LET r == OpenResult(m, io) IN
        /\ fileExists' = (fileExists \/ (r = "Ok" /\ OpenCreates(m)))
        /\ st' = [st EXCEPT ![h] = IF r = "Ok" THEN "open" ELSE "none"]
        /\ file_lock_mode' =
              [file_lock_mode EXCEPT ![h] = IF r = "Ok" THEN m ELSE "None"]
        /\ locked' = [locked EXCEPT ![h] = IF r = "Ok" THEN new_locked ELSE @]
        /\ last' = Call("new", h, r,
                     [NoNote EXCEPT !.created = ~fileExists /\ fileExists'])
    /\ UNCHANGED <<osLock, pc, contended, unlockFailed, threadVars>>

\* Mutant of lock_outcome: `self.locked = true` left out.
lock_outcome_noflag(r, old) == [locked |-> old, ret |-> r]

\* `self.lock_impl()?; self.locked = true; Ok(())`: the flag and the returned
\* value after the driver call returned r, the flag having been old.
lock_outcome(r, old) ==
    IF r = "Ok" THEN [locked |-> TRUE, ret |-> "Ok"]
    ELSE [locked |-> old, ret |-> r]

\* Mutant of lock_call: lock() calls the non-blocking driver operation.
lock_call_nonblocking(h, io) == try_lock_impl(h, io)

\* The driver call made by lock().
lock_call(h, io) == lock_impl(h, io)

\* AdvisoryFileLock::lock, up to the driver call's return or suspension.
lock(h, io) ==
    /\ st[h] = "open" /\ pc[h] = "idle"
    /\ LET r == lock_call(h, io)
           o == lock_outcome(r, locked[h]) IN
        IF r = "Block"
        THEN /\ pc' = [pc EXCEPT ![h] = "waiting"]
             /\ last' = Call("lock", h, "Pending", NoNote)
             /\ UNCHANGED <<locked, osLock, contended>>
        ELSE /\ osLock' = [osLock EXCEPT ![h] = OsAcquire(h, r)]
             /\ locked' = [locked EXCEPT ![h] = o.locked]
             /\ contended' = IF r = "Ok" THEN contended \ {h} ELSE contended
             /\ last' = Call("lock", h, o.ret,
                         [NoNote EXCEPT !.flag = locked[h]])
             /\ UNCHANGED pc
    /\ UNCHANGED <<fileExists, st, file_lock_mode, unlockFailed, threadVars>>

\* AdvisoryFileLock::lock, from the return of a suspended driver call.
lock_wake(h, io) ==
    /\ st[h] = "open" /\ pc[h] = "waiting"
    /\ LET r == lock_call(h, io)
           o == lock_outcome(r, locked[h]) IN
        /\ r # "Block"
        /\ osLock' = [osLock EXCEPT ![h] = OsAcquire(h, r)]
        /\ locked' = [locked EXCEPT ![h] = o.locked]
        /\ contended' = IF r = "Ok" THEN contended \ {h} ELSE contended
        /\ last' = Call("lock", h, o.ret,
                    [NoNote EXCEPT !.waited = TRUE, !.flag = locked[h]])
    /\ pc' = [pc EXCEPT ![h] = "idle"]
    /\ UNCHANGED <<fileExists, st, file_lock_mode, unlockFailed, threadVars>>

\* Mutant of try_lock_outcome: the driver's error is dropped (no `?`).
try_lock_outcome_swallow(r, old) == [locked |-> TRUE, ret |-> "Ok"]

\* Mutant of try_lock_outcome: `self.locked = true` left out.
try_lock_outcome_noflag(r, old) == [locked |-> old, ret |-> r]

\* Mutant of try_lock_outcome: `self.locked = true` set before the `?`.
try_lock_outcome_early(r, old) == [locked |-> TRUE, ret |-> r]

\* `self.try_lock_impl()?; self.locked = true; Ok(())`
try_lock_outcome(r, old) ==
    IF r = "Ok" THEN [locked |-> TRUE, ret |-> "Ok"]
    ELSE [locked |-> old, ret |-> r]

\* Mutant of try_lock_call: every driver failure is reported as IOError.
try_lock_call_ioerror(h, io) ==
    IF try_lock_impl(h, io) = "Ok" THEN "Ok" ELSE "IOError"

\* Mutant of try_lock_call: try_lock() calls the blocking driver operation.
try_lock_call_blocking(h, io) == lock_impl(h, io)

\* The driver call made by try_lock().
try_lock_call(h, io) == try_lock_impl(h, io)

\* AdvisoryFileLock::try_lock
try_lock(h, io) ==
    /\ st[h] = "open" /\ pc[h] = "idle"
    /\ LET r == try_lock_call(h, io)
           o == try_lock_outcome(r, locked[h]) IN
        /\ osLock' = [osLock EXCEPT ![h] = OsAcquire(h, r)]
        /\ locked' = [locked EXCEPT ![h] = o.locked]
        /\ contended' = IF o.ret = "AlreadyLocked"
                        THEN contended \cup {h} ELSE contended \ {h}
        /\ last' = Call("try_lock", h, o.ret,
                         [NoNote EXCEPT !.retry = h \in contended])
    /\ UNCHANGED <<fileExists, st, file_lock_mode, pc, unlockFailed,
                   threadVars>>

\* Mutant of unlock_outcome: `self.locked = false` left out.
unlock_outcome_noflag(r, old) == [locked |-> old, ret |-> r]

\* Mutant of unlock_outcome: `self.locked = false` set before the `?`.
unlock_outcome_early(r, old) == [locked |-> FALSE, ret |-> r]

\* `self.unlock_impl()?; self.locked = false; Ok(())`
unlock_outcome(r, old) ==
    IF r = "Ok" THEN [locked |-> FALSE, ret |-> "Ok"]
    ELSE [locked |-> old, ret |-> r]

\* AdvisoryFileLock::unlock
unlock(h, io) ==
    /\ st[h] = "open" /\ pc[h] = "idle"
    /\ LET r == unlock_impl(h, io)
           o == unlock_outcome(r, locked[h]) IN
        /\ osLock' = [osLock EXCEPT ![h] = OsRelease(h, r)]
        /\ locked' = [locked EXCEPT ![h] = o.locked]
        /\ unlockFailed' = IF locked[h] /\ o.ret = "IOError"
                           THEN unlockFailed \cup {h}
                           ELSE unlockFailed \ {h}
        /\ last' = Call("unlock", h, o.ret,
                    [NoNote EXCEPT !.rel = 1, !.flag = locked[h]])
    /\ UNCHANGED <<fileExists, st, file_lock_mode, pc, contended, threadVars>>

\* Mutant of drop_releases: the early return is left out.
drop_releases_always(flag) == TRUE

\* Mutant of drop_releases: the test is inverted (`if self.locked`).
drop_releases_inverted(flag) == ~flag

\* `if !self.locked { return; }`: whether drop goes on to call self.unlock().
drop_releases(flag) == flag

\* Mutant of drop_logs: the error of the inner unlock() is discarded.
drop_logs_never(ret) == 0

\* `if let Err(err) = self.unlock() { log::error!(..) }`: lines logged.
drop_logs(ret) == IF ret \in FileLockError THEN 1 ELSE 0

\* Drop for AdvisoryFileLock, followed by the drop of the field `file`, which
\* closes the descriptor: the OS gives up whatever lock it still carries.
drop(h, io) ==
    /\ st[h] = "open" /\ pc[h] = "idle"
    /\ IF drop_releases(locked[h])
       THEN LET o == unlock_outcome(unlock_impl(h, io), locked[h]) IN
            /\ locked' = [locked EXCEPT ![h] = o.locked]
            /\ last' = Call("drop", h, o.ret,
                            [NoNote EXCEPT !.retry = h \in unlockFailed,
                                           !.flag = locked[h],
                                           !.rel = 1,
                                           !.log = drop_logs(o.ret)])
       ELSE /\ last' = Call("drop", h, "Ok",
                            [NoNote EXCEPT !.retry = h \in unlockFailed,
                                           !.flag = locked[h]])
            /\ UNCHANGED locked
    /\ osLock' = [osLock EXCEPT ![h] = "None"]
    /\ st' = [st EXCEPT ![h] = "dropped"]
    /\ contended' = contended \ {h}
    /\ unlockFailed' = unlockFailed \ {h}
    /\ UNCHANGED <<fileExists, file_lock_mode, pc, threadVars>>

Next ==
    \/ \E h \in H, m \in FileLockMode, io \in BOOLEAN : new(h, m, io)
    \/ \E h \in H, io \in BOOLEAN : lock(h, io)
    \/ \E h \in H, io \in BOOLEAN : lock_wake(h, io)
    \/ \E h \in H, io \in BOOLEAN : try_lock(h, io)
    \/ \E h \in H, io \in BOOLEAN : unlock(h, io)
    \/ \E h \in H, io \in BOOLEAN : drop(h, io)

Spec == Init /\ [][Next]_vars

-----------------------------------------------------------------------------
(* Calls issued by several threads that share one handle, the first one    *)
(* constructed.  On it a call is two steps, the driver call and then the   *)
(* update of the flag with the return, and the steps of the threads        *)
(* interleave.  The other handles, each used by one caller, contend for    *)
(* the path through the whole calls above.                                 *)

\* Number of handles in the specification with threads.
ThreadHandles == 2

HT == 1..ThreadHandles

\* The handle the threads share.
SharedHandle == 1

\* Mutant of mut_borrowed: the receivers are `&self`, so that only the
\* thread's own call excludes a new one.
mut_borrowed_shared(t) == inflight[t].op # "none"

\* lock, try_lock and unlock take `&mut self`: while any thread is inside a
\* call on the handle, no call on it can begin.
mut_borrowed(t) == \E u \in T : inflight[u].op # "none"

\* The driver call of operation op.
driver_call(op, h, io) ==
    CASE op = "lock" -> lock_call(h, io)
      [] op = "try_lock" -> try_lock_call(h, io)
      [] op = "unlock" -> unlock_impl(h, io)

\* The flag and the returned value of operation op after its driver call.
call_outcome(op, r, old) ==
    CASE op = "lock" -> lock_outcome(r, old)
      [] op = "try_lock" -> try_lock_outcome(r, old)
      [] op = "unlock" -> unlock_outcome(r, old)

\* Thread t enters lock, try_lock or unlock on the shared handle and makes
\* the driver call (a blocking acquire that finds the lock unavailable is
\* suspended in it).
t_call(t, op, io) ==
    /\ st[SharedHandle] = "open" /\ ~mut_borrowed(t)
    /\ LET h == SharedHandle
           r == driver_call(op, h, io) IN
        /\ osLock' = [osLock EXCEPT ![h] =
                         IF op = "unlock" THEN OsRelease(h, r)
                         ELSE OsAcquire(h, r)]
        /\ inflight' = [inflight EXCEPT ![t] = [op |-> op, r |-> r]]
    /\ UNCHANGED <<fileExists, st, file_lock_mode, locked, pc, contended,
                   unlockFailed, last>>

\* The suspended driver call of thread t returns.
t_wake(t, io) ==
    /\ st[SharedHandle] = "open"
    /\ inflight[t] = [op |-> "lock", r |-> "Block"]
    /\ LET h == SharedHandle
           r == lock_call(h, io) IN
        /\ r # "Block"
        /\ osLock' = [osLock EXCEPT ![h] = OsAcquire(h, r)]
        /\ inflight' = [inflight EXCEPT ![t] = [op |-> "lock", r |-> r]]
    /\ UNCHANGED <<fileExists, st, file_lock_mode, locked, pc, contended,
                   unlockFailed, last>>

\* Thread t goes on after the driver call: `?`, the update of the flag, and
\* the return.
t_return(t) ==
    /\ st[SharedHandle] = "open"
    /\ inflight[t].op # "none" /\ inflight[t].r # "Block"
    /\ LET h == SharedHandle
           c == inflight[t]
           o == call_outcome(c.op, c.r, locked[h]) IN
        /\ locked' = [locked EXCEPT ![h] = o.locked]
        /\ last' = Call(c.op, h, o.ret,
                        [NoNote EXCEPT !.flag = locked[h], !.t = t])
    /\ inflight' = [inflight EXCEPT ![t] = NoCall]
    /\ UNCHANGED <<fileExists, st, file_lock_mode, osLock, pc, contended,
                   unlockFailed>>

\* drop takes the handle itself: no thread is inside a call on it.
t_drop(io) ==
    /\ \A t \in T : inflight[t].op = "none"
    /\ drop(SharedHandle, io)

ThreadNext ==
    \/ \E h \in HT, m \in FileLockMode, io \in BOOLEAN : new(h, m, io)
    \/ \E t \in T, op \in {"lock", "try_lock", "unlock"}, io \in BOOLEAN :
          t_call(t, op, io)
    \/ \E t \in T, io \in BOOLEAN : t_wake(t, io)
    \/ \E t \in T : t_return(t)
    \/ \E io \in BOOLEAN : t_drop(io)
    \/ \E h \in HT \ {SharedHandle}, io \in BOOLEAN :
          lock(h, io) \/ lock_wake(h, io) \/ try_lock(h, io)
             \/ unlock(h, io) \/ drop(h, io)

SpecThreads == Init /\ [][ThreadNext]_vars

-----------------------------------------------------------------------------
(* File I/O forwarded to the wrapped File, beside the lock operations.     *)

IoHandles == 2

HI == 1..IoHandles

\* File-content operations reached through the handle.
FileOps == {"read", "write", "seek"}

\* Mutant of deref: the handle hands out its File only while the flag is set.
deref_checked(h) == st[h] = "open" /\ pc[h] = "idle" /\ locked[h]

\* Deref / DerefMut: `&self.file` / `&mut self.file`, whatever the flag; the
\* borrow needs a live handle that is inside no other call.
deref(h) == st[h] = "open" /\ pc[h] = "idle"

\* The wrapped File carries the operation out: a write fails on a descriptor
\* opened without write access (.write(is_exclusive)); any operation may
\* fail on an I/O error (io).
file_op(h, k, io) ==
    IF io THEN "IOError"
    ELSE IF k = "write" /\ ~OpenCreates(file_lock_mode[h]) THEN "IOError"
    ELSE "Ok"

\* read / write / seek through the handle.
forward(h, k, io) ==
    /\ deref(h)
    /\ last' = Call(k, h, file_op(h, k, io), [NoNote EXCEPT !.flag = locked[h]])
    /\ UNCHANGED <<fileExists, st, file_lock_mode, locked, osLock, pc,
                   contended, unlockFailed, threadVars>>

IoNext ==
    \/ \E h \in HI, m \in FileLockMode, io \in BOOLEAN : new(h, m, io)
    \/ \E h \in HI, io \in BOOLEAN : lock(h, io)
    \/ \E h \in HI, io \in BOOLEAN : lock_wake(h, io)
    \/ \E h \in HI, io \in BOOLEAN : try_lock(h, io)
    \/ \E h \in HI, io \in BOOLEAN : unlock(h, io)
    \/ \E h \in HI, io \in BOOLEAN : drop(h, io)
    \/ \E h \in HI, k \in FileOps, io \in BOOLEAN : forward(h, k, io)

SpecIo == Init /\ [][IoNext]_vars

-----------------------------------------------------------------------------
(* Blocking acquire under fair scheduling.                                 *)

\* Number of handles in the specification with fairness.
FairHandles == 2

HF == 1..FairHandles

FairNext ==
    \/ \E h \in HF, m \in FileLockMode, io \in BOOLEAN : new(h, m, io)
    \/ \E h \in HF, io \in BOOLEAN : lock(h, io)
    \/ \E h \in HF, io \in BOOLEAN : lock_wake(h, io)
    \/ \E h \in HF, io \in BOOLEAN : try_lock(h, io)
    \/ \E h \in HF, io \in BOOLEAN : unlock(h, io)
    \/ \E h \in HF, io \in BOOLEAN : drop(h, io)

\* The OS wakes a thread suspended in the blocking acquire once the lock is
\* available and stays so: the successful return of a suspended lock() is
\* weakly fair.  Nothing else is: callers may stop calling, and an I/O
\* failure may or may not strike.
SpecFair ==
    Init /\ [][FairNext]_vars /\ \A h \in HF : WF_vars(lock_wake(h, FALSE))

-----------------------------------------------------------------------------
(* Calls, as steps.                                                        *)

\* The step records a call of op on handle h (every action sets last).
Called(op, h) == last'.op = op /\ last'.h = h

NewStep(h) ==
    Called("new", h) /\ \E m \in FileLockMode, io \in BOOLEAN : new(h, m, io)

LockStep(h) ==
    Called("lock", h) /\ \E io \in BOOLEAN : lock(h, io) \/ lock_wake(h, io)

TryLockStep(h) == Called("try_lock", h) /\ \E io \in BOOLEAN : try_lock(h, io)

UnlockStep(h) == Called("unlock", h) /\ \E io \in BOOLEAN : unlock(h, io)

DropStep(h) == Called("drop", h) /\ \E io \in BOOLEAN : drop(h, io)

\* Handle a is alive and has acquired its lock (flag set).
Holds(a) == st[a] = "open" /\ locked[a]

\* Some other descriptor holds an OS lock that rules out the one b requests.
HeldIncompatibly(b) ==
    \E g \in H \ {b} :
        osLock[g] = "Exclusive" \/ (osLock[g] = "Shared" /\ is_exclusive(b))

\* The flags and OS locks of every handle but h are left as they are.
OthersUnchanged(h) ==
    \A g \in H \ {h} : locked'[g] = locked[g] /\ osLock'[g] = osLock[g]

-----------------------------------------------------------------------------
\* C1: while an Exclusive handle a holds its lock, every try_lock() of
\* another Exclusive handle b returns AlreadyLocked (neither success nor
\* IOError), b acquires nothing, and a still holds its lock afterwards.
C1_ExclusiveExcludesExclusive ==
    [][\A a \in H : \A b \in H \ {a} :
          (Holds(a) /\ is_exclusive(a) /\ is_exclusive(b) /\ TryLockStep(b))
          => /\ last'.res = "AlreadyLocked"
             /\ ~locked'[b] /\ osLock'[b] = "None"
             /\ Holds(a)' /\ osLock'[a] = "Exclusive"]_vars

C1_Witness ==
    /\ last.op = "try_lock" /\ last.res = "AlreadyLocked"
    /\ is_exclusive(last.h)
    /\ \E a \in H \ {last.h} :
          Holds(a) /\ is_exclusive(a) /\ osLock[a] = "Exclusive"

\* C2: while a handle a holds a Shared lock, try_lock() of an Exclusive
\* handle b returns AlreadyLocked; while a holds an Exclusive lock, try_lock()
\* of a Shared handle b returns AlreadyLocked.  b acquires nothing and a
\* keeps its lock.
C2_SharedExclusiveExclusion ==
    [][\A a \in H : \A b \in H \ {a} :
          ( /\ Holds(a)
            /\ \/ is_shared(a) /\ is_exclusive(b)
               \/ is_exclusive(a) /\ is_shared(b)
            /\ TryLockStep(b) )
          => /\ last'.res = "AlreadyLocked"
             /\ ~locked'[b] /\ osLock'[b] = "None"
             /\ Holds(a)' /\ osLock'[a] = file_lock_mode[a]]_vars

\* An Exclusive handle has just been refused because of a Shared holder, and
\* a Shared handle refused earlier (by an Exclusive holder) is still waiting
\* for its turn.
C2_Witness ==
    /\ last.op = "try_lock" /\ last.res = "AlreadyLocked"
    /\ is_exclusive(last.h)
    /\ \E a \in H \ {last.h} : Holds(a) /\ is_shared(a)
    /\ \E b \in contended : is_shared(b)

\* C3: with no Exclusive holder, lock() and try_lock() of a Shared handle
\* never wait and never return AlreadyLocked, however many Shared handles
\* hold the lock: unless the driver reports an I/O failure they succeed,
\* the handle then holds a Shared lock, and the other handles keep theirs.
C3_SharedCompatible ==
    [][\A h \in H : \A io \in BOOLEAN :
          ( /\ st[h] = "open" /\ is_shared(h)
            /\ \A g \in H : osLock[g] # "Exclusive"
            /\ last'.h = h
            /\ (lock(h, io) \/ try_lock(h, io)) )
          => /\ last'.res = (IF io THEN "IOError" ELSE "Ok")
             /\ pc'[h] = "idle"
             /\ ~io => (locked'[h] /\ osLock'[h] = "Shared")
             /\ OthersUnchanged(h)]_vars

\* Every handle is Shared and holds the lock at once; the last one got it by
\* try_lock().
C3_Witness ==
    /\ \A h \in H : Holds(h) /\ is_shared(h) /\ osLock[h] = "Shared"
    /\ last.op = "try_lock" /\ last.res = "Ok"

\* C4: a handle whose try_lock() was refused (AlreadyLocked) succeeds at its
\* next try_lock() once no other handle holds a conflicting lock (the holder
\* having unlocked or been dropped), barring an I/O failure of the driver:
\* the call returns Ok and sets the flag.
C4_ReleaseFreesContention ==
    [][\A b \in H :
          ( /\ b \in contended /\ ~HeldIncompatibly(b)
            /\ Called("try_lock", b) /\ try_lock(b, FALSE) )
          => /\ last'.res = "Ok"
             /\ locked'[b] /\ osLock'[b] = file_lock_mode[b]]_vars

\* A refused handle has retried and now holds the lock, and a former holder
\* has been dropped.
C4_Witness ==
    /\ last.op = "try_lock" /\ last.res = "Ok" /\ last.retry
    /\ Holds(last.h)
    /\ \E a \in H : st[a] = "dropped"

\* C5: a drop makes no driver release call and logs nothing when the handle
\* holds no lock, makes exactly one release call when it holds one, and in
\* either case leaves no lock held through the destroyed handle.
C5_DropReleasesOnce ==
    [][\A h \in H :
          DropStep(h)
          => /\ last'.rel = (IF osLock[h] # "None" THEN 1 ELSE 0)
             /\ osLock[h] = "None" => last'.log = 0
             /\ osLock'[h] = "None" /\ st'[h] = "dropped"]_vars

\* A locked handle was dropped with one release call, after another handle
\* had been dropped too.
C5_Witness ==
    /\ last.op = "drop" /\ last.rel = 1 /\ last.res = "Ok"
    /\ \E g \in H \ {last.h} : st[g] = "dropped"

\* C6: new() in Shared mode on a missing path returns IOError and creates no
\* file; new() in Exclusive mode on a missing path succeeds (barring another
\* I/O failure of the open) and the file exists afterwards; new() never
\* returns AlreadyLocked.
C6_ModeOpenFlags ==
    [][\A h \in H : \A m \in FileLockMode : \A io \in BOOLEAN :
          (Called("new", h) /\ new(h, m, io))
          => /\ last'.res \in {"Ok", "IOError"}
             /\ (~fileExists /\ m = "Shared")
                   => ( /\ last'.res = "IOError"
                        /\ ~fileExists' /\ st'[h] = "none" )
             /\ (~fileExists /\ m = "Exclusive" /\ ~io)
                   => ( /\ last'.res = "Ok"
                        /\ fileExists' /\ st'[h] = "open"
                        /\ file_lock_mode'[h] = "Exclusive" )]_vars

\* An Exclusive handle was constructed on a missing path, which created it.
C6_Witness ==
    /\ last.op = "new" /\ last.res = "Ok" /\ last.created
    /\ st[last.h] = "open" /\ is_exclusive(last.h) /\ fileExists

\* C7: the flag of a live handle is set exactly when an OS lock is held
\* through its descriptor.
C7_FlagAccurate ==
    \A h \in H : st[h] = "open" => (locked[h] <=> osLock[h] # "None")

\* unlock() has just failed on a handle that holds its lock.
C7_Witness ==
    /\ last.op = "unlock" /\ last.res = "IOError"
    /\ Holds(last.h) /\ osLock[last.h] # "None"

\* C8: a try_lock() that returns AlreadyLocked or IOError changes no
\* handle's flag, mode or OS lock.
C8_TryLockFailureNoChange ==
    [][\A h \in H :
          (TryLockStep(h) /\ last'.res \in FileLockError)
          => /\ locked' = locked
             /\ file_lock_mode' = file_lock_mode
             /\ osLock' = osLock]_vars

\* try_lock() has just returned IOError while another try_lock() stands
\* refused.
C8_Witness ==
    /\ last.op = "try_lock" /\ last.res = "IOError"
    /\ contended # {}

\* C9: an unlock() that returns IOError on a locked handle leaves the flag
\* set, and a drop of a handle whose latest unlock() failed so makes one
\* driver release call.
C9_UnlockFailureRetried ==
    [][\A h \in H :
          /\ (UnlockStep(h) /\ locked[h] /\ last'.res = "IOError")
                => (locked'[h] /\ h \in unlockFailed')
          /\ (DropStep(h) /\ h \in unlockFailed) => last'.rel = 1]_vars

C9_Witness == last.op = "drop" /\ last.retry /\ last.rel = 1

\* C10: lock() returns Ok or IOError (or is still suspended); AlreadyLocked
\* is returned by try_lock() alone, and only while another handle holds an
\* incompatible lock.
C10_BlockingNeverAlreadyLocked ==
    /\ last.op = "lock" => last.res \in {"Ok", "IOError", "Pending"}
    /\ last.res = "AlreadyLocked"
          => (last.op = "try_lock" /\ HeldIncompatibly(last.h))

\* lock() has returned IOError, not AlreadyLocked, under contention.
C10_Witness ==
    /\ last.op = "lock" /\ last.res = "IOError"
    /\ pc[last.h] = "idle" /\ HeldIncompatibly(last.h)

\* C11: try_lock() and unlock() complete in one step, in every state: a
\* live handle that is not inside a blocking lock() can always call them,
\* whatever the other handles hold, and the call returns a final value (Ok,
\* AlreadyLocked or IOError for try_lock; Ok or IOError for unlock) without
\* suspending the handle.
C11_NonBlockingNeverSuspends ==
    /\ \A h \in H :
          (st[h] = "open" /\ pc[h] = "idle")
          => ( /\ ENABLED (\E io \in BOOLEAN : try_lock(h, io))
               /\ ENABLED (\E io \in BOOLEAN : unlock(h, io)) )
    /\ last.op = "try_lock"
          => ( /\ last.res \in {"Ok", "AlreadyLocked", "IOError"}
               /\ pc[last.h] = "idle" )
    /\ last.op = "unlock"
          => (last.res \in {"Ok", "IOError"} /\ pc[last.h] = "idle")

\* try_lock() has returned at once under contention, while a third handle is
\* suspended in lock().
C11_Witness ==
    /\ last.op = "try_lock" /\ last.res = "AlreadyLocked"
    /\ HeldIncompatibly(last.h)
    /\ \E g \in H \ {last.h} : pc[g] = "waiting"

\* C12: a lock() that finds a conflicting lock held is suspended; while the
\* conflict lasts a suspended lock() returns only with IOError; once the
\* conflict is gone it returns Ok with the flag set unless an I/O failure
\* occurs; and if from some point on no conflicting lock is held, a suspended
\* lock() eventually returns.
C12_BlockingWaitsThenCompletes ==
    /\ [][\A h \in HF :
            /\ (Called("lock", h) /\ HeldIncompatibly(h) /\ lock(h, FALSE))
                  => ( /\ last'.res = "Pending" /\ pc'[h] = "waiting"
                       /\ locked' = locked /\ osLock' = osLock )
            /\ (Called("lock", h) /\ HeldIncompatibly(h) /\ pc[h] = "waiting")
                  => (last'.res = "IOError" /\ ~locked'[h])
            /\ (Called("lock", h) /\ lock_wake(h, FALSE))
                  => ( /\ last'.res = "Ok" /\ pc'[h] = "idle"
                       /\ locked'[h] /\ osLock'[h] = file_lock_mode[h] )
         ]_vars
    /\ \A h \in HF : (<>[](~HeldIncompatibly(h))) => <>[](pc[h] = "idle")

\* A lock() that had been suspended has returned Ok, its handle now holds
\* the lock and the former holder is still alive.
C12_Witness ==
    /\ last.op = "lock" /\ last.res = "Ok" /\ last.waited
    /\ Holds(last.h) /\ is_exclusive(last.h)
    /\ \E g \in H \ {last.h} : st[g] = "open" /\ ~locked[g]

\* C13: a drop always completes: the handle is destroyed and its descriptor
\* closed (no lock is left on it) whatever the release call returned.  A
\* drop whose release call failed made that one call only and logged exactly
\* one line; a drop whose release succeeded, or that made none, logged
\* nothing.
C13_DropInfallible ==
    last.op = "drop"
    => /\ st[last.h] = "dropped" /\ osLock[last.h] = "None"
       /\ last.rel \in {0, 1}
       /\ last.res = "IOError" => (last.rel = 1 /\ last.log = 1)
       /\ last.res = "Ok" => last.log = 0

\* A locked handle was dropped, the release failed and one line was logged.
C13_Witness ==
    /\ last.op = "drop" /\ last.flag /\ last.res = "IOError"
    /\ last.log = 1 /\ st[last.h] = "dropped"

\* C14: when the threads' calls of lock, try_lock and unlock on one handle
\* interleave, then whenever no call is under way on a live handle its flag
\* is set exactly when an OS lock is held through its descriptor, and a drop
\* makes one release call when the handle holds a lock and none otherwise,
\* leaving no lock behind.
C14_ThreadSafe ==
    /\ []( (st[SharedHandle] = "open" /\ \A t \in T : inflight[t].op = "none")
           => (locked[SharedHandle] <=> osLock[SharedHandle] # "None") )
    /\ [][(Called("drop", SharedHandle) /\ \E io \in BOOLEAN : t_drop(io))
            => /\ last'.rel = (IF osLock[SharedHandle] # "None" THEN 1 ELSE 0)
               /\ osLock'[SharedHandle] = "None"]_vars

\* A call of one thread on the shared handle has returned, leaving its lock
\* held, and another thread is now inside unlock() on it, past the driver
\* call, while a second handle is suspended in lock().
C14_Witness ==
    /\ last.h = SharedHandle /\ last.t \in T /\ last.res = "Ok"
    /\ st[SharedHandle] = "open" /\ locked[SharedHandle]
    /\ \E t \in T \ {last.t} : inflight[t] = [op |-> "unlock", r |-> "Ok"]
    /\ \E g \in HT \ {SharedHandle} : pc[g] = "waiting"

\* C15, as claimed: unlock() and drop invoke the driver's release only when
\* the handle's flag is set.
C15_ReleaseOnlyWhenLocked ==
    (last.op \in {"unlock", "drop"} /\ last.rel >= 1) => last.flag

\* C15, amended: drop invokes the driver's release exactly when the flag is
\* set; unlock() invokes it in every state of the handle, set flag or not
\* (it can be called on a handle that holds no lock, and makes the call).
C15_ReleaseGuardedInDropOnly ==
    /\ last.op = "drop" => (last.rel = 1 <=> last.flag)
    /\ last.op = "unlock" => last.rel = 1
    /\ \A h \in H :
          (st[h] = "open" /\ pc[h] = "idle" /\ ~locked[h])
          => ENABLED unlock(h, FALSE)

\* unlock() was called on a handle whose flag was clear, made the release
\* call and returned Ok.
C15_Witness ==
    /\ last.op = "unlock" /\ ~last.flag /\ last.rel = 1 /\ last.res = "Ok"
    /\ st[last.h] = "open" /\ ~locked[last.h]

\* C16: a successful new() yields a live handle with the flag clear and no
\* OS lock, changes no OS lock, flag or suspension of any handle, and leaves
\* for every other handle the same answer to whether a conflicting lock is
\* held against it; also while other handles hold Shared or Exclusive locks.
C16_NewRequestsNoLock ==
    [][\A h \in H :
          (NewStep(h) /\ last'.res = "Ok")
          => /\ st'[h] = "open" /\ ~locked'[h] /\ osLock'[h] = "None"
             /\ osLock' = osLock /\ pc' = pc
             /\ OthersUnchanged(h)
             /\ \A g \in H \ {h} :
                   HeldIncompatibly(g)' = HeldIncompatibly(g)]_vars

\* A handle has been constructed while another holds an Exclusive lock and a
\* third is suspended in lock().
C16_Witness ==
    /\ last.op = "new" /\ last.res = "Ok"
    /\ st[last.h] = "open" /\ ~locked[last.h]
    /\ \E g \in H \ {last.h} : Holds(g) /\ osLock[g] = "Exclusive"
    /\ \E g \in H \ {last.h} : pc[g] = "waiting"

\* The handles through whose descriptor an OS lock is held.
OsHolders == {h \in H : osLock[h] # "None"}

\* The live handles whose flag says they hold their lock.
FlagHolders == {h \in H : Holds(h)}

\* C17: in every reachable state the handles that hold the OS lock are none,
\* or exactly one, Exclusive, or one or more, all Shared; an Exclusive holder
\* never coexists with another holder.  The same is true of the handles
\* whose flag is set.
C17_MutualExclusion ==
    /\ \/ OsHolders = {}
       \/ \E h \in H : OsHolders = {h} /\ osLock[h] = "Exclusive"
       \/ \A h \in OsHolders : osLock[h] = "Shared"
    /\ \/ FlagHolders = {}
       \/ \E h \in H : FlagHolders = {h} /\ is_exclusive(h)
       \/ \A h \in FlagHolders : is_shared(h)
    /\ \A h \in OsHolders : osLock[h] = file_lock_mode[h]

\* Several Shared holders at once, with an Exclusive handle suspended in
\* lock() behind them.
C17_Witness ==
    /\ Cardinality(OsHolders) >= 2 /\ FlagHolders = OsHolders
    /\ \E g \in H : pc[g] = "waiting" /\ is_exclusive(g)

\* C18: lock() on a handle whose flag is already set returns Ok without
\* being suspended (unless the driver reports an I/O failure), leaves the
\* flag set, changes no OS lock and nothing of what the other handles can
\* acquire; the handle holds one lock, which a single successful unlock()
\* or the drop releases entirely.
C18_RelockIdempotent ==
    [][\A h \in H :
          /\ (Called("lock", h) /\ Holds(h) /\ lock(h, FALSE))
                => ( /\ last'.res = "Ok" /\ pc'[h] = "idle"
                     /\ locked'[h] /\ osLock' = osLock
                     /\ OthersUnchanged(h)
                     /\ \A g \in H \ {h} :
                           HeldIncompatibly(g)' = HeldIncompatibly(g) )
          /\ (UnlockStep(h) /\ last'.res = "Ok")
                => (osLock'[h] = "None" /\ ~locked'[h])
          /\ DropStep(h) => osLock'[h] = "None"]_vars

\* lock() has returned Ok on a handle that already held its Shared lock,
\* beside another Shared holder.
C18_Witness ==
    /\ last.op = "lock" /\ last.flag /\ last.res = "Ok" /\ ~last.waited
    /\ Holds(last.h) /\ osLock[last.h] = "Shared"
    /\ \E g \in H \ {last.h} : Holds(g)

ForwardStep(h) ==
    last'.h = h /\ last'.op \in FileOps
       /\ \E k \in FileOps, io \in BOOLEAN : forward(h, k, io)

\* C19: a read, write or seek through a live handle that is inside no other
\* call can be made whether its flag is set or not, and it leaves the flag,
\* the mode and the OS lock of every handle as they were.
C19_ForwardingTransparent ==
    /\ [](\A h \in H : (st[h] = "open" /\ pc[h] = "idle")
             => \A k \in FileOps : ENABLED (\E io \in BOOLEAN : forward(h, k, io)))
    /\ [][\A h \in H : ForwardStep(h)
             => ( /\ locked' = locked
                  /\ file_lock_mode' = file_lock_mode
                  /\ osLock' = osLock )]_vars

\* A read has gone through a handle that holds no lock while another handle
\* holds the Exclusive lock.
C19_Witness ==
    /\ last.op = "read" /\ last.res = "Ok" /\ ~last.flag
    /\ ~locked[last.h] /\ osLock[last.h] = "None"
    /\ \E g \in H \ {last.h} : Holds(g) /\ osLock[g] = "Exclusive"

\* C20: a successful new() stores the mode it was passed; no later step
\* (lock, try_lock, unlock, forwarded I/O, drop), whatever it returns,
\* changes the mode of a constructed handle; and of is_shared() and
\* is_exclusive() exactly one is true on every constructed handle, the one
\* of its mode.
C20_ModeFixed ==
    /\ [](\A h \in H : st[h] # "none"
             => /\ file_lock_mode[h] \in FileLockMode
                /\ is_shared(h) # is_exclusive(h)
                /\ is_shared(h) = (file_lock_mode[h] = "Shared")
                /\ is_exclusive(h) = (file_lock_mode[h] = "Exclusive"))
    /\ [][\A h \in H :
             /\ st[h] # "none" => file_lock_mode'[h] = file_lock_mode[h]
             /\ \A m \in FileLockMode :
                   (Called("new", h) /\ last'.res = "Ok"
                      /\ \E io \in BOOLEAN : new(h, m, io))
                   => file_lock_mode'[h] = m]_vars

\* A Shared handle still answers is_shared() after its try_lock() was turned
\* away by an Exclusive holder.
C20_Witness ==
    /\ last.op = "try_lock" /\ last.res = "AlreadyLocked"
    /\ is_shared(last.h) /\ ~is_exclusive(last.h) /\ ~locked[last.h]
    /\ \E g \in H \ {last.h} : Holds(g) /\ is_exclusive(g)

====
